---------------------------- MODULE Spec2Model ----------------------------
(***************************************************************************)
(* terra_geocrud: map style resolution and rendering payload                *)
(* (views.py, utils.py), and the display schema builder.                    *)
(*                                                                          *)
(* Python dicts are functions from keys to values (the key set is the       *)
(* DOMAIN).  A dict object that several places may hold at once (an entry   *)
(* of the configured STYLES table) is referred to by a reference, so that   *)
(* an item assignment through one holder is seen by every other holder.     *)
(***************************************************************************)
EXTENDS Integers, Sequences, FiniteSets, TLC

----------------------------------------------------------------------------
(* Bounds of the model *)

\* most extra geometries attached to one feature
MaxExtra == 2
\* most display groups configured for a view
MaxGroups == 2
\* the number of write requests served
MaxWrites == 3
\* the number of admin requests served
MaxAdminRequests == 3

----------------------------------------------------------------------------
(* Python values *)

\* d[k] = v
SetItem(d, k, v) == [x \in (DOMAIN d) \cup {k} |-> IF x = k THEN v ELSE d[x]]

\* {} (an empty JSON object, the default of the JSONField map_style)
EmptyDict == [x \in {} |-> ""]

\* truth value of a dict: non-empty
Truthy(d) == DOMAIN d # {}

\* references to objects
NoneRef == [t |-> "None"]
Entry(k) == [t |-> "entry", key |-> k]
Own(d) == [t |-> "own", dict |-> d]

\* outcome of a call: a returned value or a raised exception
Return(v) == [exc |-> "", ret |-> v]
Raise(e) == [exc |-> e, ret |-> NoneRef]

----------------------------------------------------------------------------
(* The world the requests run in *)

Layers == {"l1", "l2"}
Views == {"v1", "v2"}

\* layer.crud_view : OneToOneField(layer, related_name='crud_view')
crud_view(l) == IF l = "l1" THEN "v1" ELSE "v2"
layer_of(v) == IF v = "v1" THEN "l1" ELSE "l2"

PointKinds == {"Point", "MultiPoint"}
LineKinds == {"LineString", "MultiLineString"}
PolygonKinds == {"Polygon", "MultiPolygon"}
\* a kind none of is_point / is_linestring / is_polygon recognises
OtherKinds == {"GeometryCollection"}
Kinds == PointKinds \cup LineKinds \cup PolygonKinds \cup OtherKinds

is_point(kind) == kind \in PointKinds
is_linestring(kind) == kind \in LineKinds
is_polygon(kind) == kind \in PolygonKinds

\* LayerExtraGeom definitions of layer l1: name and geometry kind
ExtraGeoms == {"d1", "d2"}
\* the definitions the administrator registers ExtraLayerStyle rows for
StyledExtraGeoms == {"d1"}
\* the geometry kinds the layers are created with
KindAssignments ==
    {[l \in Layers |-> IF l = "l1" THEN k ELSE "MultiPolygon"] :
        k \in {"Point", "MultiPoint", "MultiLineString", "GeometryCollection"}}
extra_name(d) == IF d = "d1" THEN "e1" ELSE "e2"
extra_kind(d) == IF d = "d1" THEN "Point" ELSE "MultiPoint"

\* the style fragments an administrator may store
CustomStyle == [type |-> "fill", paint |-> "custom"]
StoredStyles == {EmptyDict, CustomStyle}

\* TERRA_GEOCRUD['STYLES'] as configured
FullSTYLES ==
    [k \in {"point", "line", "polygon"} |->
        CASE k = "point" -> [type |-> "circle", paint |-> "circle-paint"]
          [] k = "line" -> [type |-> "line", paint |-> "line-paint"]
          [] k = "polygon" -> [type |-> "fill", paint |-> "fill-paint"]]
Restrict(f, S) == [x \in S |-> f[x]]
Configurations == {FullSTYLES, Restrict(FullSTYLES, {"line", "polygon"})}

\* geometries: a kind and a set of points with even coordinates
Pts == {<<0, 2>>, <<2, 0>>}
GeomsOf(kind) ==
    IF kind \in {"Point", "GeometryCollection"}
    THEN {[type |-> "Point", points |-> {p}] : p \in Pts}
    ELSE {[type |-> kind, points |-> {<<2, 0>>, <<2, 4>>}]}

\* the geometry attached for an extra-geometry definition
ExtraGeomOf(d) ==
    IF d = "d1" THEN [type |-> "Point", points |-> {<<4, 4>>}]
    ELSE [type |-> "MultiPoint", points |-> {<<0, 0>>, <<6, 2>>}]

\* sequences over S of length at most n
RECURSIVE SeqsUpTo(_, _)
SeqsUpTo(S, n) ==
    IF n = 0 THEN {<<>>}
    ELSE LET shorter == SeqsUpTo(S, n - 1)
         IN shorter \cup {Append(s, x) : s \in {t \in shorter : Len(t) = n - 1}, x \in S}

VARIABLES
    geom_type,     \* Layer.geom_type of each layer
    STYLES,        \* app_settings.TERRA_GEOCRUD['STYLES'], a module-level dict
    configured,    \* STYLES as the settings define it at start-up
    map_style,     \* CrudView.map_style of each view
    extra_style,   \* ExtraLayerStyle.map_style per (extra geometry, view); NoneRef: no row
    ui_schema,     \* CrudView.ui_schema of each view (the raw ordering schema)
    feature_display_groups,  \* FeaturePropertyDisplayGroup rows of each view, in order
    display_rendering,       \* properties of each view with a PropertyDisplayRendering
    feature_properties,      \* Feature.properties of the stored feature of each view
    db_objects,              \* committed rows written through the viewsets, by unique name
    db_revisions,            \* committed revisions
    writes,                  \* number of perform_create / perform_update calls so far
    requests,                \* the position of each API write request in ReversionMixin
    readonly_fields,         \* CrudViewAdmin.readonly_fields, the class-level list
    admin_obj,               \* self.obj of the one CrudViewAdmin instance
    view_layer,              \* the layer of each CrudView saved through the admin
    admin_served,            \* number of admin requests started
    admin_requests,          \* the position of each admin request in changeform_view
    crud_groups,             \* the CrudGroupView rows
    crud_views,              \* the CrudView rows
    crud_layers,             \* the Layer rows
    view_templates,          \* CrudView.templates: the templates attached to each view
    last           \* the last request served and its outcome

styleVars == <<geom_type, STYLES, configured, map_style, extra_style>>
schemaVars == <<ui_schema, feature_display_groups, display_rendering>>
\* concurrent API write requests, their users, and the rows they write
ApiRequests == {"r1", "r2"}
Users == {"anonymous", "alice"}
ObjectNames == {"g1", "g2"}
Orders == {1, 2}
NoRequest == [pc |-> "idle"]
\* Revision.user of a revision nobody was set on
NoUser == "None"

\* concurrent admin requests served by the one CrudViewAdmin instance
AdminRequests == {"a1", "a2"}
\* the layers a view may be given in the admin
AdminLayers == Layers \cup {"l3"}
\* a view not saved yet has no layer
NoLayer == "None"
\* readonly_fields as written in the class body
ConfiguredReadonlyFields == <<"grouped_form_schema", "properties">>
\* self.obj: never assigned, or a loaded CrudView with the layer it has
Unset == [t |-> "unset"]
LoadedView(view, layer) == [t |-> "obj", view |-> view, layer |-> layer]

\* the primary keys of CrudGroupView rows
GroupIds == {"G1", "G2"}
\* CrudView.group of a view without group
NoGroup == "None"

\* the template rows, and the primary keys a request may name
Templates == {"t1", "t2"}
TemplatePks == Templates \cup {"t9"}
\* template_file.name of a template: the path below the media root
template_file(t) == IF t = "t1" THEN <<"templates", "t1.docx">> ELSE <<"templates", "t2.docx">>

\* state outside the style resolver and the display configuration
txVars == <<db_objects, db_revisions, writes, requests>>
adminVars == <<readonly_fields, admin_obj, view_layer, admin_served, admin_requests>>
dbVars == <<crud_groups, crud_views, crud_layers>>
extVars == <<feature_properties, txVars, adminVars, dbVars, view_templates>>
vars == <<styleVars, schemaVars, extVars, last>>

\* features of a layer, as the feature store may hold them
FeaturesOf(l, kinds) ==
    {[layer |-> l, geom |-> g, extra_geometries |-> e] :
        g \in GeomsOf(kinds[l]),
        e \in IF l = "l1" THEN SeqsUpTo(ExtraGeoms, MaxExtra) ELSE {<<>>}}

----------------------------------------------------------------------------
(* utils.py *)

\* the base style skeleton
DEFAULT_MBGL_RENDERER_STYLE ==
    [version |-> 8,
     sources |-> [k \in {"DEFAULT_MBGL_RENDERER_STYLE"} |->
                     [type |-> "raster", tiles |-> "osm", tileSize |-> 256, maxzoom |-> 18]],
     layers |-> <<[id |-> "DEFAULT_MBGL_RENDERER_STYLE", type |-> "raster",
                   source |-> "DEFAULT_MBGL_RENDERER_STYLE"]>>]

\* style_settings.get(key): the entry object itself, or None
StylesGet(styles, key) == IF key \in DOMAIN styles THEN Return(Entry(key)) ELSE Return(NoneRef)

\* get_default_style with the line and polygon branches exchanged
get_default_style_swapped(kind, styles) ==
    IF is_point(kind) THEN StylesGet(styles, "point")
    ELSE IF is_linestring(kind) THEN StylesGet(styles, "polygon")
    ELSE IF is_polygon(kind) THEN StylesGet(styles, "line")
    ELSE Raise("UnboundLocalError")

\* get_default_style(layer): `response` is bound in none of the branches for
\* an unrecognised kind, and the return statement raises UnboundLocalError
get_default_style(kind, styles) ==
    IF is_point(kind) THEN StylesGet(styles, "point")
    ELSE IF is_linestring(kind) THEN StylesGet(styles, "line")
    ELSE IF is_polygon(kind) THEN StylesGet(styles, "polygon")
    ELSE Raise("UnboundLocalError")

----------------------------------------------------------------------------
(* CrudView properties used by the views *)

\* CrudView.map_style_with_default: the override if non-empty, otherwise
\* get_default_style(layer)
map_style_with_default(view, kinds, styles, overrides) ==
    IF Truthy(overrides[view]) THEN Return(Own(overrides[view]))
    ELSE get_default_style(kinds[layer_of(view)], styles)

\* CrudView.mblg_renderer_style: a skeleton with the base tile source and
\* layer, built for the call
mblg_renderer_style(view) ==
    [sources |-> DEFAULT_MBGL_RENDERER_STYLE.sources,
     layers |-> <<Own(DEFAULT_MBGL_RENDERER_STYLE.layers[1])>>]

----------------------------------------------------------------------------
(* views.py: CrudRenderTemplateDetailView.get_style *)

\* the dict a reference denotes
Deref(ref, styles) == IF ref.t = "entry" THEN styles[ref.key] ELSE ref.dict

\* layer['id'] = id; layer['source'] = id, on the object `ref` refers to.
\* c carries the call's exception, the STYLES table and the stamped reference
StampLayer(ref, id, styles) ==
    IF ref.t = "None" THEN [exc |-> "TypeError", styles |-> styles, ref |-> ref]
    ELSE IF ref.t = "entry"
    THEN [exc |-> "",
          styles |-> [styles EXCEPT ![ref.key] = SetItem(SetItem(@, "id", id), "source", id)],
          ref |-> ref]
    ELSE [exc |-> "", styles |-> styles,
          ref |-> Own(SetItem(SetItem(ref.dict, "id", id), "source", id))]

\* {'type': 'geojson', 'data': loads(geom.geojson)}
GeojsonSource(geom) == [type |-> "geojson", data |-> geom]

\* layer_extra_geom.style.all(): the rows of every view
ExtraStyleRowsAnyView(d, view, rows) ==
    {rows[p] : p \in {q \in DOMAIN rows : q[1] = d /\ rows[q] # NoneRef}}

\* layer_extra_geom.style.filter(crud_view=view): the rows of this view
ExtraStyleRows(d, view, rows) ==
    IF <<d, view>> \in DOMAIN rows /\ rows[<<d, view>>] # NoneRef
    THEN {rows[<<d, view>>]} ELSE {}

\* the style object chosen for an extra geometry
ExtraLayer(d, view, rows, styles) ==
    LET extra_style_qs == ExtraStyleRows(d, view, rows)
    IN IF extra_style_qs # {} /\ Truthy((CHOOSE r \in extra_style_qs : TRUE).dict)
       THEN Return(CHOOSE r \in extra_style_qs : TRUE)
       ELSE get_default_style(extra_kind(d), styles)

\* one pass of the loop over feature.extra_geometries.all()
ExtraStep(c, d, view, rows) ==
    LET chosen == ExtraLayer(d, view, rows, c.styles)
        extra_id == extra_name(d)
        stamped == StampLayer(chosen.ret, extra_id, c.styles)
    IN IF chosen.exc # "" THEN [c EXCEPT !.exc = chosen.exc]
       ELSE IF stamped.exc # "" THEN [c EXCEPT !.exc = stamped.exc]
       ELSE [c EXCEPT !.styles = stamped.styles,
                      !.sources = SetItem(@, extra_id, GeojsonSource(ExtraGeomOf(d))),
                      !.layers = Append(@, stamped.ref)]

RECURSIVE ExtraLoop(_, _, _, _, _)
ExtraLoop(c, extras, i, view, rows) ==
    IF c.exc # "" \/ i > Len(extras) THEN c
    ELSE ExtraLoop(ExtraStep(c, extras[i], view, rows), extras, i + 1, view, rows)

\* style_map['layers'].append(primary_layer)
AppendPrimary(layers, primary_layer) == Append(layers, primary_layer)

\* get_style(feature): the outcome, the STYLES table after the call and the
\* style document returned (read when the caller serialises it)
get_style(feature, kinds, styles, overrides, rows) ==
    LET view == crud_view(feature.layer)
        style_map == mblg_renderer_style(view)
        geojson_id == "primary"
        primary == map_style_with_default(view, kinds, styles, overrides)
        stamped == StampLayer(primary.ret, geojson_id, styles)
        c0 == [exc |-> "", styles |-> stamped.styles,
               sources |-> SetItem(style_map.sources, geojson_id, GeojsonSource(feature.geom)),
               layers |-> style_map.layers]
        c1 == ExtraLoop(c0, feature.extra_geometries, 1, view, rows)
        layers == AppendPrimary(c1.layers, stamped.ref)
    IN IF primary.exc # "" THEN [exc |-> primary.exc, styles |-> styles]
       ELSE IF stamped.exc # "" THEN [exc |-> stamped.exc, styles |-> styles]
       ELSE IF c1.exc # "" THEN [exc |-> c1.exc, styles |-> c1.styles]
       ELSE [exc |-> "", styles |-> c1.styles,
             style |-> [version |-> DEFAULT_MBGL_RENDERER_STYLE.version,
                        sources |-> c1.sources,
                        layers |-> [i \in 1 .. Len(layers) |-> Deref(layers[i], c1.styles)]]]

----------------------------------------------------------------------------
(* views.py: CrudRenderTemplateDetailView.get_context_data *)

\* app_settings.TERRA_GEOCRUD.get('MAX_ZOOM', 22)
MAX_ZOOM == 22
WIDTH == 1024
HEIGHT == 512

\* dumps(style): the JSON text of the document, kept as the document it encodes
dumps(style) == [json |-> style]

Min(S) == CHOOSE x \in S : \A y \in S : x <= y
Max(S) == CHOOSE x \in S : \A y \in S : x >= y

\* GeometryCollection(...).extent: (xmin, ymin, xmax, ymax)
Extent(points) ==
    <<Min({p[1] : p \in points}), Min({p[2] : p \in points}),
      Max({p[1] : p \in points}), Max({p[2] : p \in points})>>

RECURSIVE SumCoord(_, _)
SumCoord(points, i) ==
    IF points = {} THEN 0
    ELSE LET p == CHOOSE q \in points : TRUE IN p[i] + SumCoord(points \ {p}, i)

\* list(geom.centroid) of a point, a pair of points or a two-point line: the
\* mean of the points.  The modelled coordinates are even, so the mean of
\* two of them is whole.
Centroid(geom) ==
    LET n == Cardinality(geom.points)
    IN <<SumCoord(geom.points, 1) \div n, SumCoord(geom.points, 2) \div n>>

\* str(v) of a float holding a whole number
StrFloat(n) == ToString(n) \o ".0"

\* ','.join(str(v) for v in extent)
JoinExtent(e) ==
    StrFloat(e[1]) \o "," \o StrFloat(e[2]) \o "," \o StrFloat(e[3]) \o "," \o StrFloat(e[4])

\* the points of the primary geometry and of every extra geometry
AllPoints(feature) ==
    feature.geom.points \cup
    UNION {ExtraGeomOf(feature.extra_geometries[i]).points :
              i \in 1 .. Len(feature.extra_geometries)}

\* the viewport chosen on the layer's kind alone
ViewportByKindOnly(feature, kinds) ==
    IF is_point(kinds[feature.layer])
    THEN [k \in {"zoom", "center"} |->
             IF k = "zoom" THEN MAX_ZOOM ELSE Centroid(feature.geom)]
    ELSE [k \in {"bounds"} |-> JoinExtent(Extent(AllPoints(feature)))]

\* the viewport entries added to context['style']
Viewport(feature, kinds) ==
    IF is_point(kinds[feature.layer]) /\ feature.extra_geometries = <<>>
    THEN [k \in {"zoom", "center"} |->
             IF k = "zoom" THEN MAX_ZOOM ELSE Centroid(feature.geom)]
    ELSE [k \in {"bounds"} |-> JoinExtent(Extent(AllPoints(feature)))]

Merge(d, e) == [k \in (DOMAIN d) \cup (DOMAIN e) |-> IF k \in DOMAIN e THEN e[k] ELSE d[k]]

get_context_data(feature, kinds, styles, overrides, rows) ==
    LET r == get_style(feature, kinds, styles, overrides, rows)
    IN IF r.exc # "" THEN r
       ELSE [exc |-> "", styles |-> r.styles, style |-> r.style,
             context |-> Merge([style |-> dumps(r.style), width |-> WIDTH,
                                height |-> HEIGHT, token |-> "mapbox_access_token"],
                               Viewport(feature, kinds))]


----------------------------------------------------------------------------
(* Display schema builder: CrudView.grouped_ui_schema and the feature       *)
(* serializer's display_properties                                          *)

Properties == {"age", "name", "country"}
Slugs == {"test", "test2", "test3"}
\* the views whose display configuration is edited
SchemaViews == {"v1"}

Range(q) == {q[i] : i \in 1 .. Len(q)}

\* the property lists a display group may be saved with
GroupProperties == {<<"age">>, <<"name">>, <<"name", "age">>, <<"age", "country">>}

\* the raw ordering schemas an administrator may store: widget directives of
\* some properties and, optionally, a top-level ui:order
Textarea == [k \in {"ui:widget"} |-> "textarea"]
RawSchemas ==
    {[k \in P |-> Textarea] : P \in SUBSET {"name", "age"}} \cup
    {SetItem([k \in P |-> Textarea], "ui:order", o) :
        P \in SUBSET {"name", "age"}, o \in {<<"name", "age">>, <<"age">>}}

\* the property bags of the features of a view
PropertyBags ==
    {[k \in P |-> CASE k = "age" -> "10" [] k = "name" -> "2012-01-01" [] OTHER -> "slovenija"] :
        P \in SUBSET Properties}

\* the sub-object of a display group without the raw widget directives
GroupUiSchemaOrderOnly(raw, group) ==
    SetItem(EmptyDict, "ui:order", Append(group.properties, "*"))

\* the sub-object of one display group: its properties' widget directives
\* from the raw schema and its own ui:order
GroupUiSchema(raw, group) ==
    SetItem(Restrict(raw, ((DOMAIN raw) \cap Range(group.properties)) \ {"ui:order"}),
            "ui:order", Append(group.properties, "*"))

\* grouped_ui_schema keeping the raw entries at top level beside the groups
grouped_ui_schema_keeping_raw(raw, groups) ==
    LET slugs == [i \in 1 .. Len(groups) |-> groups[i].slug]
        grouped == [k \in Range(slugs) |->
                       GroupUiSchema(raw, groups[CHOOSE i \in 1 .. Len(groups) : groups[i].slug = k])]
    IN SetItem(Merge(raw, grouped), "ui:order", Append(slugs, "*"))

\* CrudView.grouped_ui_schema
grouped_ui_schema(raw, groups) ==
    IF groups = <<>> THEN raw
    ELSE LET slugs == [i \in 1 .. Len(groups) |-> groups[i].slug]
         IN [k \in {"ui:order"} \cup Range(slugs) |->
                IF k = "ui:order" THEN Append(slugs, "*")
                ELSE GroupUiSchema(raw, groups[CHOOSE i \in 1 .. Len(groups) : groups[i].slug = k])]

\* the value a PropertyDisplayRendering widget shows for a raw value
RenderValue(value) == "rendered " \o value

\* the feature's properties with the rendering overrides applied
RenderedProperties(bag, rendered) ==
    [k \in DOMAIN bag |-> IF k \in rendered THEN RenderValue(bag[k]) ELSE bag[k]]

\* display_properties without the final "__default__" bucket
display_properties_groups_only(bag, groups, rendered) ==
    LET shown == RenderedProperties(bag, rendered)
    IN [i \in 1 .. Len(groups) |->
           <<groups[i].slug, Restrict(shown, (DOMAIN shown) \cap Range(groups[i].properties))>>]

\* display_properties: an ordered mapping, as a sequence of <<key, value>>
display_properties(bag, groups, rendered) ==
    LET shown == RenderedProperties(bag, rendered)
        claimed == UNION {Range(groups[i].properties) : i \in 1 .. Len(groups)}
        grouped == [i \in 1 .. Len(groups) |->
                       <<groups[i].slug,
                         Restrict(shown, (DOMAIN shown) \cap Range(groups[i].properties))>>]
    IN Append(grouped, <<"__default__", Restrict(shown, (DOMAIN shown) \ claimed)>>)

----------------------------------------------------------------------------
(* Requests *)

Idle == [op |-> "none"]

Init ==
    /\ geom_type \in KindAssignments
    /\ configured \in Configurations
    /\ STYLES = configured
    /\ map_style = [v \in Views |-> EmptyDict]
    /\ extra_style = [p \in StyledExtraGeoms \X Views |-> NoneRef]
    /\ ui_schema = [v \in Views |-> EmptyDict]
    /\ feature_display_groups = [v \in Views |-> <<>>]
    /\ display_rendering = [v \in Views |-> {}]
    /\ feature_properties = [v \in Views |-> EmptyDict]
    /\ db_objects = [n \in ObjectNames |-> NoneRef]
    /\ db_revisions = {}
    /\ writes = 0
    /\ requests = [r \in ApiRequests |-> NoRequest]
    /\ readonly_fields = ConfiguredReadonlyFields
    /\ admin_obj = Unset
    /\ view_layer = [v \in Views |-> IF v = "v1" THEN layer_of(v) ELSE NoLayer]
    /\ admin_served = 0
    /\ admin_requests = [r \in AdminRequests |-> NoRequest]
    /\ crud_groups = [g \in GroupIds |-> NoneRef]
    /\ crud_views = [v \in Views |-> NoneRef]
    /\ crud_layers = {}
    /\ view_templates = [v \in Views |-> {}]
    /\ last = Idle

\* GET render-template for a feature: the context of the document
RenderTemplate(feature) ==
    LET r == get_context_data(feature, geom_type, STYLES, map_style, extra_style)
    IN /\ STYLES' = r.styles
       /\ last' = IF r.exc # ""
                  THEN [op |-> "render", feature |-> feature, exc |-> r.exc]
                  ELSE [op |-> "render", feature |-> feature, exc |-> "",
                        style |-> r.style, context |-> r.context]
       /\ UNCHANGED <<extVars, geom_type, configured, map_style, extra_style, schemaVars>>

\* a call of get_default_style for a layer or an extra-geometry definition
GetDefaultStyle(kind) ==
    LET r == get_default_style(kind, STYLES)
    IN /\ last' = [op |-> "get_default_style", kind |-> kind, exc |-> r.exc,
                   ret |-> IF r.exc = "" /\ r.ret # NoneRef
                           THEN Own(Deref(r.ret, STYLES)) ELSE NoneRef]
       /\ UNCHANGED <<extVars, styleVars, schemaVars>>

\* GET crudview-detail: the serializer exposes map_style_with_default as
\* map_style and grouped_ui_schema as ui_schema
RetrieveView(view) ==
    LET r == map_style_with_default(view, geom_type, STYLES, map_style)
    IN /\ last' = [op |-> "crudview-detail", view |-> view, exc |-> r.exc,
                   map_style |-> IF r.exc = "" /\ r.ret # NoneRef
                                 THEN Own(Deref(r.ret, STYLES)) ELSE NoneRef,
                   stored_ui_schema |-> ui_schema[view],
                   ui_schema |-> grouped_ui_schema(ui_schema[view],
                                                   feature_display_groups[view])]
       /\ UNCHANGED <<extVars, styleVars, schemaVars>>

\* the administrator saves a view with a map_style
SaveView(view, style) ==
    /\ map_style' = [map_style EXCEPT ![view] = style]
    /\ last' = Idle
    /\ UNCHANGED <<extVars, geom_type, STYLES, configured, extra_style, schemaVars>>

\* the administrator saves or deletes the ExtraLayerStyle row of (d, view)
SaveExtraLayerStyle(d, view, row) ==
    /\ extra_style' = [extra_style EXCEPT ![<<d, view>>] = row]
    /\ last' = Idle
    /\ UNCHANGED <<extVars, geom_type, STYLES, configured, map_style, schemaVars>>

\* the administrator saves the raw ordering schema of a view
SaveUiSchema(view, schema) ==
    /\ ui_schema' = [ui_schema EXCEPT ![view] = schema]
    /\ last' = Idle
    /\ UNCHANGED <<extVars, styleVars, feature_display_groups, display_rendering>>

\* the administrator adds a display group; the slug is unique within the view
CreateDisplayGroup(view, slug, properties) ==
    /\ Len(feature_display_groups[view]) < MaxGroups
    /\ \A i \in 1 .. Len(feature_display_groups[view]) :
          feature_display_groups[view][i].slug # slug
    /\ feature_display_groups' =
          [feature_display_groups EXCEPT
              ![view] = Append(@, [slug |-> slug, properties |-> properties])]
    /\ last' = Idle
    /\ UNCHANGED <<extVars, styleVars, ui_schema, display_rendering>>

\* the administrator deletes the i-th display group of a view
DeleteDisplayGroup(view, i) ==
    /\ i \in 1 .. Len(feature_display_groups[view])
    /\ feature_display_groups' =
          [feature_display_groups EXCEPT
              ![view] = SubSeq(@, 1, i - 1) \o SubSeq(@, i + 1, Len(@))]
    /\ last' = Idle
    /\ UNCHANGED <<extVars, styleVars, ui_schema, display_rendering>>

\* the administrator sets the properties shown through a rendering widget
SaveDisplayRendering(view, properties) ==
    /\ display_rendering' = [display_rendering EXCEPT ![view] = properties]
    /\ last' = Idle
    /\ UNCHANGED <<extVars, styleVars, ui_schema, feature_display_groups>>

\* GET feature-detail of a feature with the property bag `bag`
RetrieveFeature(view, bag) ==
    /\ last' = [op |-> "feature-detail", view |-> view, properties |-> bag,
                display_properties |->
                    display_properties(bag, feature_display_groups[view],
                                       display_rendering[view])]
    /\ UNCHANGED <<extVars, styleVars, schemaVars>>

----------------------------------------------------------------------------
(* Create and update of a feature with grouped properties *)

\* dict without the key k
DelItem(d, k) == Restrict(d, (DOMAIN d) \ {k})

\* un-grouping that keeps the first value of a key met twice
RECURSIVE ungroup_first_wins(_, _, _)
ungroup_first_wins(data, groups, i) ==
    IF i > Len(groups) THEN data
    ELSE IF groups[i].slug \in DOMAIN data
    THEN ungroup_first_wins(Merge(data[groups[i].slug], DelItem(data, groups[i].slug)),
                            groups, i + 1)
    ELSE ungroup_first_wins(data, groups, i + 1)

\* un-grouping of submitted properties: each group's sub-bag, in group
\* order, is taken out from under its slug and merged into the bag
RECURSIVE ungroup(_, _, _)
ungroup(data, groups, i) ==
    IF i > Len(groups) THEN data
    ELSE IF groups[i].slug \in DOMAIN data
    THEN ungroup(Merge(DelItem(data, groups[i].slug), data[groups[i].slug]), groups, i + 1)
    ELSE ungroup(data, groups, i + 1)

\* the `properties` of the API response: the stored bag under the group
\* slugs, the properties of no group at top level
grouped_properties(bag, groups) ==
    LET claimed == UNION {Range(groups[i].properties) : i \in 1 .. Len(groups)}
        slugs == {groups[i].slug : i \in 1 .. Len(groups)}
        G(k) == groups[CHOOSE i \in 1 .. Len(groups) : groups[i].slug = k]
    IN [k \in slugs \cup ((DOMAIN bag) \ claimed) |->
           IF k \in slugs THEN Restrict(bag, (DOMAIN bag) \cap Range(G(k).properties))
           ELSE bag[k]]

\* the grouped properties a client may submit
SubmittedSlugs == {"test", "test2"}
SubBags(P, value) == {[k \in Q |-> value] : Q \in SUBSET P}
Submissions ==
    {Merge(Merge(top, IF a = NoneRef THEN EmptyDict ELSE [k \in {"test"} |-> a]),
           IF b = NoneRef THEN EmptyDict ELSE [k \in {"test2"} |-> b]) :
        top \in SubBags({"age", "country"}, "France"),
        a \in {NoneRef} \cup SubBags({"age", "name"}, "10"),
        b \in {NoneRef} \cup SubBags({"name"}, "toto")}

\* POST feature-list / PUT feature-detail with grouped properties: the
\* flattened bag is stored and the response shows it grouped again
SaveFeature(view, method, submitted) ==
    LET flat == ungroup(submitted, feature_display_groups[view], 1)
    IN /\ feature_properties' = [feature_properties EXCEPT ![view] = flat]
       /\ last' = [op |-> "feature-save", method |-> method, view |-> view,
                   submitted |-> submitted, stored |-> flat,
                   properties |-> grouped_properties(flat, feature_display_groups[view])]
       /\ UNCHANGED <<view_templates, styleVars, schemaVars, txVars, adminVars, dbVars>>

----------------------------------------------------------------------------
(* ReversionMixin.perform_create / perform_update, one step per statement;
   a request's uncommitted work lives in its own record and is invisible to
   the others until the transaction commits *)

\* the viewset calls perform_create / perform_update: both context managers
\* are entered
PerformStart(r, method, user, name, order) ==
    /\ requests[r].pc = "idle"
    /\ writes < MaxWrites
    /\ method = "update" => db_objects[name] # NoneRef
    /\ writes' = writes + 1
    /\ requests' = [requests EXCEPT ![r] =
           [pc |-> "atomic", method |-> method, user |-> user, name |-> name,
            order |-> order, serial |-> writes + 1, tag |-> NoUser, failed_at |-> "none"]]
    /\ UNCHANGED <<view_templates, styleVars, schemaVars, feature_properties, dbVars, adminVars, db_objects,
                 db_revisions, last>>

\* a write that reaches the database at once, outside any transaction
PerformWriteAutocommit(r) ==
    /\ requests[r].pc = "atomic"
    /\ requests[r].method = "create" => db_objects[requests[r].name] = NoneRef
    /\ requests' = [requests EXCEPT ![r].pc = "written"]
    /\ db_objects' = [db_objects EXCEPT ![requests[r].name] =
           [order |-> requests[r].order, serial |-> requests[r].serial]]
    /\ UNCHANGED <<view_templates, styleVars, schemaVars, feature_properties, dbVars, adminVars, db_revisions,
                 writes, last>>

\* super().perform_create(serializer) / perform_update: the row is written
\* inside the transaction
PerformWrite(r) ==
    /\ requests[r].pc = "atomic"
    /\ requests[r].method = "create" => db_objects[requests[r].name] = NoneRef
    /\ requests' = [requests EXCEPT ![r].pc = "written"]
    /\ UNCHANGED <<view_templates, styleVars, schemaVars, feature_properties, dbVars, adminVars, db_objects,
                   db_revisions, writes, last>>

\* an exception leaves both context managers: no revision is saved and the
\* transaction is rolled back
Raise_(r, step) ==
    /\ requests' = [requests EXCEPT ![r].pc = "failed", ![r].failed_at = step]
    /\ UNCHANGED <<view_templates, styleVars, schemaVars, feature_properties, dbVars, adminVars, db_objects,
                   db_revisions, writes, last>>

\* the write raises (integrity or database error)
WriteRaises(r) ==
    /\ requests[r].pc = "atomic"
    /\ Raise_(r, "write")

\* set_reversion_user(reversion, self.request.user)
set_reversion_user(r) ==
    /\ requests[r].pc = "written"
    /\ requests' = [requests EXCEPT
           ![r].pc = "tagged",
           ![r].tag = IF requests[r].user # "anonymous" THEN requests[r].user ELSE NoUser]
    /\ UNCHANGED <<view_templates, styleVars, schemaVars, feature_properties, dbVars, adminVars, db_objects,
                   db_revisions, writes, last>>

\* leaving reversion.create_revision(): the revision is saved inside the
\* transaction, or saving it raises
CloseRevision(r) ==
    /\ requests[r].pc = "tagged"
    /\ requests' = [requests EXCEPT ![r].pc = "revised"]
    /\ UNCHANGED <<view_templates, styleVars, schemaVars, feature_properties, dbVars, adminVars, db_objects,
                   db_revisions, writes, last>>

RevisionRaises(r) ==
    /\ requests[r].pc = "tagged"
    /\ Raise_(r, "revision")

\* leaving transaction.atomic(): the row and the revision become visible
\* together; a unique name taken meanwhile fails the commit
Commit(r) ==
    /\ requests[r].pc = "revised"
    /\ requests[r].method = "create" => db_objects[requests[r].name] = NoneRef
    /\ db_objects' = [db_objects EXCEPT ![requests[r].name] =
           [order |-> requests[r].order, serial |-> requests[r].serial]]
    /\ db_revisions' = db_revisions \cup
           {[serial |-> requests[r].serial, name |-> requests[r].name,
             user |-> requests[r].tag]}
    /\ requests' = [requests EXCEPT ![r].pc = "committed"]
    /\ UNCHANGED <<view_templates, styleVars, schemaVars, feature_properties, dbVars, adminVars, writes, last>>

CommitRaises(r) ==
    /\ requests[r].pc = "revised"
    /\ requests[r].method = "create" /\ db_objects[requests[r].name] # NoneRef
    /\ Raise_(r, "commit")

\* the response is sent; the worker serves the next request
Respond(r) ==
    /\ requests[r].pc \in {"committed", "failed"}
    /\ requests' = [requests EXCEPT ![r] = NoRequest]
    /\ UNCHANGED <<view_templates, styleVars, schemaVars, feature_properties, dbVars, adminVars, db_objects,
                   db_revisions, writes, last>>

----------------------------------------------------------------------------
(* CrudViewAdmin: the add and change forms, one step per method called by
   changeform_view; the instance and its class are shared by all requests *)

\* ModelAdmin.get_readonly_fields alone: the class-level list, untouched
get_readonly_fields_of_super(ro_fields, obj) == ro_fields

\* get_readonly_fields: super() returns the class-level list itself, and
\* 'layer' is appended to it for a saved view; the result is that list
get_readonly_fields(ro_fields, obj) ==
    IF obj # NoneRef THEN Append(ro_fields, "layer") ELSE ro_fields

\* the queryset given to feature_title_property / default_list_properties:
\* the schema properties of a layer, or none
SchemaPropertiesOf(layer) == [layer |-> layer]
NoProperties == [layer |-> NoLayer]
PropertiesQueryset(obj) ==
    IF obj = Unset THEN [layer |-> "AttributeError"]
    ELSE IF obj # NoneRef THEN SchemaPropertiesOf(obj.layer)
    ELSE NoProperties

\* add_view: self.obj = None, then changeform_view(request, None, ...)
AddView(r, view, layer) ==
    /\ admin_requests[r].pc = "idle"
    /\ admin_served < MaxAdminRequests
    /\ view_layer[view] = NoLayer
    /\ admin_served' = admin_served + 1
    /\ admin_obj' = NoneRef
    /\ admin_requests' = [admin_requests EXCEPT ![r] =
           [pc |-> "hooked", add |-> TRUE, view |-> view, obj |-> NoneRef,
            submitted |-> layer, ro |-> <<>>, title |-> NoProperties,
            list |-> NoProperties, saved |-> FALSE]]
    /\ UNCHANGED <<view_templates, styleVars, schemaVars, feature_properties, dbVars, txVars, readonly_fields,
                   view_layer, last>>

\* change_view: changeform_view calls get_object, which hooks the view
GetObject(r, view, layer) ==
    /\ admin_requests[r].pc = "idle"
    /\ admin_served < MaxAdminRequests
    /\ view_layer[view] # NoLayer
    /\ admin_served' = admin_served + 1
    /\ admin_obj' = LoadedView(view, view_layer[view])
    /\ admin_requests' = [admin_requests EXCEPT ![r] =
           [pc |-> "hooked", add |-> FALSE, view |-> view,
            obj |-> LoadedView(view, view_layer[view]),
            submitted |-> layer, ro |-> <<>>, title |-> NoProperties,
            list |-> NoProperties, saved |-> FALSE]]
    /\ UNCHANGED <<view_templates, styleVars, schemaVars, feature_properties, dbVars, txVars, readonly_fields,
                   view_layer, last>>

\* get_form asks get_readonly_fields(request, obj) and excludes the result
GetReadonlyFields(r) ==
    /\ admin_requests[r].pc = "hooked"
    /\ readonly_fields' = get_readonly_fields(readonly_fields, admin_requests[r].obj)
    /\ admin_requests' = [admin_requests EXCEPT
           ![r].pc = "fields",
           ![r].ro = get_readonly_fields(readonly_fields, admin_requests[r].obj)]
    /\ UNCHANGED <<view_templates, styleVars, schemaVars, feature_properties, dbVars, txVars, admin_obj,
                   view_layer, admin_served, last>>

\* formfield_for_foreignkey for feature_title_property
FormfieldForForeignkey(r) ==
    /\ admin_requests[r].pc = "fields"
    /\ admin_requests' = [admin_requests EXCEPT
           ![r].pc = "foreignkey", ![r].title = PropertiesQueryset(admin_obj)]
    /\ UNCHANGED <<view_templates, styleVars, schemaVars, feature_properties, dbVars, txVars, readonly_fields,
                   admin_obj, view_layer, admin_served, last>>

\* formfield_for_manytomany for default_list_properties
FormfieldForManytomany(r) ==
    /\ admin_requests[r].pc = "foreignkey"
    /\ admin_requests' = [admin_requests EXCEPT
           ![r].pc = "manytomany", ![r].list = PropertiesQueryset(admin_obj)]
    /\ UNCHANGED <<view_templates, styleVars, schemaVars, feature_properties, dbVars, txVars, readonly_fields,
                   admin_obj, view_layer, admin_served, last>>

\* the posted form is saved: a read-only field is not part of the form, and
\* a layer can belong to one view only
SaveModel(r) ==
    LET q == admin_requests[r]
        editable == "layer" \notin Range(q.ro)
        free == \A v \in Views \ {q.view} : view_layer[v] # q.submitted
        taken == view_layer[q.view] # NoLayer
    IN /\ q.pc = "manytomany"
       /\ IF q.add
          THEN IF editable /\ free /\ ~taken
               THEN /\ view_layer' = [view_layer EXCEPT ![q.view] = q.submitted]
                    /\ admin_requests' = [admin_requests EXCEPT ![r].pc = "done",
                                                                ![r].saved = TRUE]
               ELSE /\ view_layer' = view_layer
                    /\ admin_requests' = [admin_requests EXCEPT ![r].pc = "done"]
          ELSE IF editable /\ ~free
               THEN /\ view_layer' = view_layer
                    /\ admin_requests' = [admin_requests EXCEPT ![r].pc = "done"]
               ELSE /\ view_layer' = [view_layer EXCEPT
                           ![q.view] = IF editable THEN q.submitted ELSE @]
                    /\ admin_requests' = [admin_requests EXCEPT ![r].pc = "done",
                                                                ![r].saved = TRUE]
       /\ UNCHANGED <<view_templates, styleVars, schemaVars, feature_properties, dbVars, txVars, readonly_fields,
                      admin_obj, admin_served, last>>

\* the response is sent
AdminRespond(r) ==
    /\ admin_requests[r].pc = "done"
    /\ admin_requests' = [admin_requests EXCEPT ![r] = NoRequest]
    /\ UNCHANGED <<view_templates, styleVars, schemaVars, feature_properties, dbVars, txVars, readonly_fields,
                   admin_obj, view_layer, admin_served, last>>

----------------------------------------------------------------------------
(* Rows of CrudGroupView, CrudView and Layer, and the settings endpoint *)

GroupsIn(groups) == {g \in GroupIds : groups[g] # NoneRef}
ViewsIn(views) == {v \in Views : views[v] # NoneRef}
\* the crud_views of a group (related_name)
ViewsOfGroup(views, g) == {v \in ViewsIn(views) : views[v].group = g}
ViewOfLayer(views, l) == {v \in ViewsIn(views) : views[v].layer = l}

\* the orders in which a query lists the groups: Meta.ordering is ('order',),
\* rows of equal order come as the database gives them
GroupOrderings(groups) ==
    {q \in SeqsUpTo(GroupIds, Cardinality(GroupIds)) :
        /\ Range(q) = GroupsIn(groups)
        /\ Len(q) = Cardinality(GroupsIn(groups))
        /\ \A i \in 1 .. Len(q) - 1 : groups[q[i]].order <= groups[q[i + 1]].order}

IntValue(n) == [t |-> "int", v |-> n]
\* the serialized group: its fields and its views
GroupSection(groups, views, g) ==
    [id |-> g, name |-> g, order |-> IntValue(groups[g].order), pictogram |-> g,
     crud_views |-> ViewsOfGroup(views, g)]

\* the menu with every view without group in the last section
get_menu_section_any_ungrouped(ordered, groups, views) ==
    [i \in 1 .. Len(ordered) |-> GroupSection(groups, views, ordered[i])]
    \o <<[id |-> NoGroup, name |-> "Unclassified", order |-> NoneRef,
          pictogram |-> NoGroup, crud_views |-> ViewsOfGroup(views, NoGroup)]>>

\* get_menu_section: the serialized groups, then the non grouped views
get_menu_section(ordered, groups, views) ==
    [i \in 1 .. Len(ordered) |-> GroupSection(groups, views, ordered[i])]
    \o <<[id |-> NoGroup, name |-> "Unclassified", order |-> NoneRef,
          pictogram |-> NoGroup,
          crud_views |-> {v \in ViewsOfGroup(views, NoGroup) : views[v].visible}]>>

\* GET settings
GetSettings ==
    /\ \E ordered \in GroupOrderings(crud_groups) :
          last' = [op |-> "settings",
                   menu |-> get_menu_section(ordered, crud_groups, crud_views)]
    /\ UNCHANGED <<styleVars, schemaVars, extVars>>

CreateGroup(g, order) ==
    /\ crud_groups[g] = NoneRef
    /\ crud_groups' = [crud_groups EXCEPT ![g] = [order |-> order]]
    /\ last' = [op |-> "create-group", id |-> g]
    /\ UNCHANGED <<view_templates, styleVars, schemaVars, feature_properties, txVars, adminVars,
                   crud_views, crud_layers>>

\* a delete that removes the group and, with it, the views that reference it
DeleteGroupCascading(g) ==
    /\ crud_groups[g] # NoneRef
    /\ crud_groups' = [crud_groups EXCEPT ![g] = NoneRef]
    /\ crud_views' = [v \in Views |->
                         IF v \in ViewsOfGroup(crud_views, g) THEN NoneRef
                         ELSE crud_views[v]]
    /\ last' = [op |-> "delete-group", id |-> g, outcome |-> "deleted"]
    /\ UNCHANGED <<view_templates, styleVars, schemaVars, feature_properties, txVars, adminVars,
                   crud_layers>>

\* CrudView.group is on_delete=PROTECT: the delete raises while a view
\* references the group
DeleteGroup(g) ==
    /\ crud_groups[g] # NoneRef
    /\ IF ViewsOfGroup(crud_views, g) # {}
       THEN /\ crud_groups' = crud_groups
            /\ last' = [op |-> "delete-group", id |-> g, outcome |-> "ProtectedError"]
       ELSE /\ crud_groups' = [crud_groups EXCEPT ![g] = NoneRef]
            /\ last' = [op |-> "delete-group", id |-> g, outcome |-> "deleted"]
    /\ UNCHANGED <<view_templates, styleVars, schemaVars, feature_properties, txVars, adminVars,
                   crud_views, crud_layers>>

\* CrudView.layer is a OneToOneField: a second view of a layer is refused
CreateView(v, group, layer, visible) ==
    /\ crud_views[v] = NoneRef
    /\ IF group = NoGroup THEN TRUE ELSE crud_groups[group] # NoneRef
    /\ layer \in crud_layers
    /\ IF ViewOfLayer(crud_views, layer) # {}
       THEN /\ crud_views' = crud_views
            /\ last' = [op |-> "create-view", id |-> v, outcome |-> "IntegrityError"]
       ELSE /\ crud_views' = [crud_views EXCEPT
                   ![v] = [group |-> group, layer |-> layer, visible |-> visible]]
            /\ last' = [op |-> "create-view", id |-> v, outcome |-> "created"]
    /\ UNCHANGED <<view_templates, styleVars, schemaVars, feature_properties, txVars, adminVars,
                   crud_groups, crud_layers>>

DeleteView(v) ==
    /\ crud_views[v] # NoneRef
    /\ crud_views' = [crud_views EXCEPT ![v] = NoneRef]
    /\ last' = [op |-> "delete-view", id |-> v, outcome |-> "deleted"]
    /\ UNCHANGED <<view_templates, styleVars, schemaVars, feature_properties, txVars, adminVars,
                   crud_groups, crud_layers>>

CreateLayer(l) ==
    /\ l \notin crud_layers
    /\ crud_layers' = crud_layers \cup {l}
    /\ last' = [op |-> "create-layer", id |-> l]
    /\ UNCHANGED <<view_templates, styleVars, schemaVars, feature_properties, txVars, adminVars,
                   crud_groups, crud_views>>

\* CrudView.layer is on_delete=CASCADE: the layer takes its view with it
DeleteLayer(l) ==
    /\ l \in crud_layers
    /\ crud_layers' = crud_layers \ {l}
    /\ crud_views' = [v \in Views |->
                         IF v \in ViewOfLayer(crud_views, l) THEN NoneRef
                         ELSE crud_views[v]]
    /\ last' = [op |-> "delete-layer", id |-> l, outcome |-> "deleted"]
    /\ UNCHANGED <<view_templates, styleVars, schemaVars, feature_properties, txVars, adminVars,
                   crud_groups>>

----------------------------------------------------------------------------
(* CrudRenderTemplateDetailView: GET render-template for a feature and a
   template primary key *)

\* Path(name).name: the last component of a path
PathName(path) == path[Len(path)]

\* get_template_object: get_object_or_404 among the templates of the view of
\* the feature's layer
get_template_object(feature, pk, attached) ==
    IF pk \in attached[crud_view(feature.layer)] THEN Return(pk) ELSE Raise("Http404")

\* render_to_response: the template is looked up, then the document is
\* rendered and sent as an attachment
render_to_response(feature, pk, attached, context) ==
    LET template == get_template_object(feature, pk, attached)
    IN IF template.exc # "" THEN Raise(template.exc)
       ELSE Return([template_name |-> template_file(template.ret),
                    context |-> context,
                    content_disposition |->
                        [type |-> "attachment",
                         filename |-> PathName(template_file(template.ret))]])

\* DetailView.get: get_object, get_context_data, render_to_response
RenderTemplateDetail(feature, pk) ==
    LET r == get_context_data(feature, geom_type, STYLES, map_style, extra_style)
        response == render_to_response(feature, pk, view_templates, r.context)
    IN /\ STYLES' = r.styles
       /\ last' = [op |-> "render-template", feature |-> feature, template_pk |-> pk,
                   exc |-> IF r.exc # "" THEN r.exc ELSE response.exc,
                   response |-> IF r.exc # "" THEN NoneRef ELSE response.ret]
       /\ UNCHANGED <<geom_type, configured, map_style, extra_style, schemaVars,
                      feature_properties, txVars, adminVars, dbVars, view_templates>>

\* the administrator attaches a template to a view, or detaches it
AttachTemplate(view, t) ==
    /\ t \notin view_templates[view]
    /\ view_templates' = [view_templates EXCEPT ![view] = @ \cup {t}]
    /\ last' = Idle
    /\ UNCHANGED <<styleVars, schemaVars, feature_properties, txVars, adminVars, dbVars>>

DetachTemplate(view, t) ==
    /\ t \in view_templates[view]
    /\ view_templates' = [view_templates EXCEPT ![view] = @ \ {t}]
    /\ last' = Idle
    /\ UNCHANGED <<styleVars, schemaVars, feature_properties, txVars, adminVars, dbVars>>

Next ==
    \/ \E l \in Layers : \E f \in FeaturesOf(l, geom_type) : RenderTemplate(f)
    \/ \E k \in Kinds : GetDefaultStyle(k)
    \/ \E v \in Views : RetrieveView(v)
    \/ \E v \in Views : \E s \in StoredStyles : SaveView(v, s)
    \/ \E d \in StyledExtraGeoms : \E v \in Views :
          \E row \in {NoneRef} \cup {Own(s) : s \in StoredStyles} :
             SaveExtraLayerStyle(d, v, row)

Spec == Init /\ [][Next]_vars

\* the display schema builder, under one style configuration
SchemaInit ==
    /\ Init
    /\ geom_type["l1"] = "Point"
    /\ configured = FullSTYLES

SchemaNext ==
    \/ \E v \in SchemaViews : \E schema \in RawSchemas : SaveUiSchema(v, schema)
    \/ \E v \in SchemaViews : \E slug \in Slugs : \E ps \in GroupProperties :
          CreateDisplayGroup(v, slug, ps)
    \/ \E v \in SchemaViews : \E i \in 1 .. MaxGroups : DeleteDisplayGroup(v, i)
    \/ \E v \in SchemaViews : \E ps \in {{}, {"name"}} : SaveDisplayRendering(v, ps)
    \/ \E v \in SchemaViews : RetrieveView(v)
    \/ \E v \in SchemaViews : \E bag \in PropertyBags : RetrieveFeature(v, bag)

SchemaSpec == SchemaInit /\ [][SchemaNext]_vars

\* create and update of features under configured display groups
FeatureNext ==
    \/ \E v \in SchemaViews : \E slug \in SubmittedSlugs : \E ps \in GroupProperties :
          CreateDisplayGroup(v, slug, ps)
    \/ \E v \in SchemaViews : \E i \in 1 .. MaxGroups : DeleteDisplayGroup(v, i)
    \/ \E v \in SchemaViews : \E m \in {"create", "update"} : \E sub \in Submissions :
          SaveFeature(v, m, sub)

FeatureSpec == SchemaInit /\ [][FeatureNext]_vars

\* API writes through the viewsets that use ReversionMixin
WriteNext ==
    \E r \in ApiRequests :
        \/ \E m \in {"create", "update"} : \E u \in Users : \E n \in ObjectNames :
              \E o \in Orders : PerformStart(r, m, u, n, o)
        \/ PerformWrite(r)
        \/ WriteRaises(r)
        \/ set_reversion_user(r)
        \/ CloseRevision(r)
        \/ RevisionRaises(r)
        \/ Commit(r)
        \/ CommitRaises(r)
        \/ Respond(r)

WriteSpec == SchemaInit /\ [][WriteNext]_vars

\* add and change forms of CrudViewAdmin
AdminNext ==
    \E r \in AdminRequests :
        \/ \E v \in Views : \E l \in AdminLayers : AddView(r, v, l)
        \/ \E v \in Views : \E l \in AdminLayers : GetObject(r, v, l)
        \/ GetReadonlyFields(r)
        \/ FormfieldForForeignkey(r)
        \/ FormfieldForManytomany(r)
        \/ SaveModel(r)
        \/ AdminRespond(r)

AdminSpec == SchemaInit /\ [][AdminNext]_vars

\* rows created and deleted, and the settings endpoint
DbNext ==
    \/ \E g \in GroupIds : \E o \in Orders : CreateGroup(g, o)
    \/ \E g \in GroupIds : DeleteGroup(g)
    \/ \E v \in Views : \E g \in GroupIds \cup {NoGroup} : \E l \in AdminLayers :
          \E visible \in BOOLEAN : CreateView(v, g, l, visible)
    \/ \E v \in Views : DeleteView(v)
    \/ \E l \in AdminLayers : CreateLayer(l)
    \/ \E l \in AdminLayers : DeleteLayer(l)
    \/ GetSettings

DbSpec == SchemaInit /\ [][DbNext]_vars

\* documents rendered from the templates attached to the views
DocumentFeatures(l) == {f \in FeaturesOf(l, geom_type) : f.extra_geometries = <<>>}
DocumentNext ==
    \/ \E v \in Views : \E t \in Templates : AttachTemplate(v, t)
    \/ \E v \in Views : \E t \in Templates : DetachTemplate(v, t)
    \/ \E l \in Layers : \E f \in DocumentFeatures(l) : \E pk \in TemplatePks :
          RenderTemplateDetail(f, pk)

DocumentSpec == Init /\ [][DocumentNext]_vars

----------------------------------------------------------------------------
(* Vocabulary of the properties *)

BaseId == "DEFAULT_MBGL_RENDERER_STYLE"
Rendered == last.op = "render" /\ last.exc = ""
ExtraNames(feature) ==
    {extra_name(feature.extra_geometries[i]) : i \in 1 .. Len(feature.extra_geometries)}
DistinctExtras(feature) ==
    \A i, j \in 1 .. Len(feature.extra_geometries) :
        i # j => extra_name(feature.extra_geometries[i]) # extra_name(feature.extra_geometries[j])
\* the style-table key the specification gives for a geometry kind
DefaultKey(kind) ==
    CASE kind \in {"Point", "MultiPoint"} -> "point"
      [] kind \in {"LineString", "MultiLineString"} -> "line"
      [] kind \in {"Polygon", "MultiPolygon"} -> "polygon"
      [] OTHER -> "none"
\* a style layer without the id and source it was stamped with
Fragment(d) == Restrict(d, (DOMAIN d) \ {"id", "source"})
Stamped(d, id) == SetItem(SetItem(d, "id", id), "source", id)

----------------------------------------------------------------------------
(* C1: in the layers of every style get_style returns, the base tile layer   *)
(* is first, one layer per extra geometry follows, and the layer with id     *)
(* "primary" is last, strictly after every extra-geometry layer.             *)
C1_PrimaryLayerLast ==
    Rendered =>
        LET L == last.style.layers
            n == Len(last.feature.extra_geometries)
        IN /\ Len(L) = n + 2
           /\ L[1].id = BaseId
           /\ L[Len(L)].id = "primary"
           /\ \A i \in 1 .. n + 1 : L[i].id # "primary"

(* C2: with pairwise distinct extra-geometry names, the source keys are      *)
(* exactly the base tile id, the extra-geometry names and "primary", and     *)
(* for each of them exactly one layer has that id and that source.           *)
C2_SourcesAndLayersMatch ==
    Rendered /\ DistinctExtras(last.feature) =>
        LET L == last.style.layers
            ids == {BaseId, "primary"} \cup ExtraNames(last.feature)
        IN /\ DOMAIN last.style.sources = ids
           /\ \A id \in ids :
                 Cardinality({i \in 1 .. Len(L) : L[i].id = id /\ L[i].source = id}) = 1

C3_Witness_CenterZoom ==
    /\ Rendered
    /\ geom_type[last.feature.layer] = "Point"
    /\ "center" \in DOMAIN last.context

C4_DefaultStyleOrRaise ==
    last.op = "get_default_style" =>
        IF DefaultKey(last.kind) \in DOMAIN STYLES
        THEN last.exc = "" /\ last.ret = Own(STYLES[DefaultKey(last.kind)])
        ELSE last.exc # ""

(* C5: the map_style exposed for a view and the primary layer of a composed  *)
(* style are the view's own map_style when it is non-empty, otherwise the    *)
(* style-table entry of the layer's geometry kind, the multi kinds counting  *)
(* as point, line and polygon.                                               *)
C5_EffectivePrimaryStyle ==
    /\ last.op = "crudview-detail" =>
          LET v == last.view
              key == DefaultKey(geom_type[layer_of(v)])
          IN IF Truthy(map_style[v])
             THEN last.exc = "" /\ last.map_style = Own(map_style[v])
             ELSE key \in DOMAIN STYLES =>
                     last.exc = "" /\ last.map_style = Own(STYLES[key])
    /\ Rendered =>
          LET v == crud_view(last.feature.layer)
              key == DefaultKey(geom_type[layer_of(v)])
              L == last.style.layers
          IN IF Truthy(map_style[v])
             THEN L[Len(L)] = Stamped(map_style[v], "primary")
             ELSE key \in DOMAIN STYLES /\ L[Len(L)] = STYLES[key]

C5_Witness ==
    /\ last.op = "crudview-detail"
    /\ geom_type[layer_of(last.view)] = "MultiLineString"
    /\ ~Truthy(map_style[last.view])
    /\ last.map_style = Own(FullSTYLES["line"])

C5_Witness_Override ==
    /\ Rendered
    /\ Truthy(map_style[crud_view(last.feature.layer)])
    /\ geom_type[last.feature.layer] = "MultiPolygon"

(* C6: the style of each extra-geometry layer is the ExtraLayerStyle         *)
(* fragment registered for (definition, view of the feature) when that row   *)
(* exists and is non-empty, otherwise the default style of the definition's  *)
(* own kind; rows of other views and the view's map_style play no part.      *)
C6_EffectiveExtraStyle ==
    Rendered =>
        LET f == last.feature
            v == crud_view(f.layer)
            L == last.style.layers
        IN \A i \in 1 .. Len(f.extra_geometries) :
              LET d == f.extra_geometries[i]
                  registered == <<d, v>> \in DOMAIN extra_style /\ extra_style[<<d, v>>] # NoneRef
              IN Fragment(L[i + 1]) =
                    IF registered /\ Truthy(extra_style[<<d, v>>].dict)
                    THEN extra_style[<<d, v>>].dict
                    ELSE configured[DefaultKey(extra_kind(d))]

C6_Witness ==
    /\ Rendered
    /\ last.feature.extra_geometries = <<"d1", "d2">>
    /\ extra_style[<<"d1", "v1">>] = Own(EmptyDict)
    /\ extra_style[<<"d1", "v2">>] = Own(CustomStyle)
    /\ Truthy(map_style["v1"])
    /\ Fragment(last.style.layers[2]) = FullSTYLES["point"]

C6_Witness_Override ==
    /\ Rendered
    /\ last.feature.extra_geometries = <<"d1", "d2">>
    /\ extra_style[<<"d1", "v1">>] = Own(CustomStyle)
    /\ Fragment(last.style.layers[2]) = CustomStyle

(* C7: get_style leaves the configured default-style table unchanged, and    *)
(* after any earlier renders it returns for a feature the document a first   *)
(* call returns.                                                             *)
C7_NoSharedMutableState ==
    /\ STYLES = configured
    /\ Rendered =>
          last.style = get_style(last.feature, geom_type, configured, map_style, extra_style).style

(* C8: with at least one display group, the grouped schema has ui:order      *)
(* equal to the group slugs in group order followed by "*", and under each   *)
(* slug an object holding the group's property names followed by "*" as      *)
(* ui:order and the raw widget directives of exactly those properties; no    *)
(* raw property entry and no raw ui:order stays at top level.                *)
C8_GroupedUiSchema ==
    last.op = "crudview-detail" /\ feature_display_groups[last.view] # <<>> =>
        LET groups == feature_display_groups[last.view]
            raw == ui_schema[last.view]
            out == last.ui_schema
        IN /\ DOMAIN out = {"ui:order"} \cup {groups[i].slug : i \in 1 .. Len(groups)}
           /\ Len(out["ui:order"]) = Len(groups) + 1
           /\ \A i \in 1 .. Len(groups) : out["ui:order"][i] = groups[i].slug
           /\ out["ui:order"][Len(groups) + 1] = "*"
           /\ \A i \in 1 .. Len(groups) :
                 LET sub == out[groups[i].slug]
                     props == groups[i].properties
                 IN /\ sub["ui:order"] = props \o <<"*">>
                    /\ (DOMAIN sub) \ {"ui:order"} =
                          {props[j] : j \in 1 .. Len(props)} \cap ((DOMAIN raw) \ {"ui:order"})
                    /\ \A q \in (DOMAIN sub) \ {"ui:order"} : sub[q] = raw[q]

C8_Witness ==
    /\ last.op = "crudview-detail"
    /\ ui_schema[last.view] =
          SetItem([k \in {"name"} |-> Textarea], "ui:order", <<"name", "age">>)
    /\ feature_display_groups[last.view] =
          <<[slug |-> "test", properties |-> <<"age">>],
            [slug |-> "test2", properties |-> <<"name">>]>>
    /\ DOMAIN last.ui_schema = {"ui:order", "test", "test2"}
    /\ last.ui_schema["ui:order"] = <<"test", "test2", "*">>
    /\ last.ui_schema["test"] = [k \in {"ui:order"} |-> <<"age", "*">>]
    /\ DOMAIN last.ui_schema["test2"] = {"ui:order", "name"}
    /\ last.ui_schema["test2"]["name"] = Textarea

(* C9: for a view without display groups the ui_schema returned is the       *)
(* stored raw schema, and the stored schema is left as it was.               *)
C9_NoGroupsIdentity ==
    last.op = "crudview-detail" /\ feature_display_groups[last.view] = <<>> =>
        /\ last.ui_schema = last.stored_ui_schema
        /\ ui_schema[last.view] = last.stored_ui_schema

C9_Witness ==
    /\ last.op = "crudview-detail"
    /\ feature_display_groups[last.view] = <<>>
    /\ "ui:order" \in DOMAIN last.ui_schema
    /\ "name" \in DOMAIN last.ui_schema

(* C10: the keys of display_properties are the display-group slugs in group  *)
(* order followed by "__default__"; each group key holds the feature's       *)
(* properties of that group, "__default__" those of no group; every          *)
(* property of the feature appears under a key and none from outside.        *)
C10_DisplayProperties ==
    last.op = "feature-detail" =>
        LET groups == feature_display_groups[last.view]
            out == last.display_properties
            bag == last.properties
            n == Len(groups)
            ofGroup(i) == {groups[i].properties[j] : j \in 1 .. Len(groups[i].properties)}
        IN /\ Len(out) = n + 1
           /\ \A i \in 1 .. n : out[i][1] = groups[i].slug
           /\ out[n + 1][1] = "__default__"
           /\ \A i \in 1 .. n : DOMAIN out[i][2] = (DOMAIN bag) \cap ofGroup(i)
           /\ DOMAIN out[n + 1][2] = {q \in DOMAIN bag : \A i \in 1 .. n : q \notin ofGroup(i)}
           /\ UNION {DOMAIN out[i][2] : i \in 1 .. n + 1} = DOMAIN bag
           /\ \A i \in 1 .. n + 1 : \A q \in DOMAIN out[i][2] :
                 out[i][2][q] = IF q \in display_rendering[last.view]
                                THEN "rendered " \o bag[q] ELSE bag[q]

C10_Witness ==
    /\ last.op = "feature-detail"
    /\ DOMAIN last.properties = {"age", "name", "country"}
    /\ feature_display_groups[last.view] =
          <<[slug |-> "test", properties |-> <<"age">>],
            [slug |-> "test2", properties |-> <<"name">>]>>
    /\ display_rendering[last.view] = {}
    /\ last.display_properties =
          <<<<"test", [k \in {"age"} |-> "10"]>>,
            <<"test2", [k \in {"name"} |-> "2012-01-01"]>>,
            <<"__default__", [k \in {"country"} |-> "slovenija"]>>>>

----------------------------------------------------------------------------
(* Grouped properties of a saved feature *)

SavedFeature == last.op = "feature-save"
SavedGroups == feature_display_groups[last.view]
SavedSlugs == {SavedGroups[i].slug : i \in 1 .. Len(SavedGroups)}
\* the top-level ungrouped keys of the submission
TopKeys == (DOMAIN last.submitted) \ SavedSlugs
\* the groups under whose slug the key k was submitted
GroupsHolding(k) ==
    {i \in 1 .. Len(SavedGroups) :
        /\ SavedGroups[i].slug \in DOMAIN last.submitted
        /\ k \in DOMAIN last.submitted[SavedGroups[i].slug]}
SubmittedKeys == TopKeys \cup {k \in Properties : GroupsHolding(k) # {}}
\* the value the merge of the submission gives to k: the last group's
\* that holds it, else the top-level one
MergedValue(k) ==
    IF GroupsHolding(k) # {}
    THEN last.submitted[SavedGroups[Max(GroupsHolding(k))].slug][k]
    ELSE last.submitted[k]
\* the stored bag is the flat merge of the submission, with no slug as key
StoredIsFlatMerge ==
    /\ feature_properties[last.view] = last.stored
    /\ DOMAIN last.stored = SubmittedKeys
    /\ (DOMAIN last.stored) \cap SavedSlugs = {}
    /\ \A k \in SubmittedKeys : last.stored[k] = MergedValue(k)
NoKeyInTwoPlaces ==
    \A k \in SubmittedKeys :
        Cardinality(GroupsHolding(k)) + (IF k \in TopKeys THEN 1 ELSE 0) = 1
GroupsOwning(k) == {i \in 1 .. Len(SavedGroups) : k \in Range(SavedGroups[i].properties)}
\* every group is submitted, and every key is submitted under the groups
\* that list it, or at top level when no group lists it
WellPlaced ==
    /\ SavedSlugs \subseteq DOMAIN last.submitted
    /\ \A k \in SubmittedKeys :
          /\ GroupsHolding(k) = GroupsOwning(k)
          /\ k \in TopKeys <=> GroupsOwning(k) = {}

----------------------------------------------------------------------------
(* Atomic writes of ReversionMixin *)

\* something written by the request with this serial can be observed
Observable(serial) ==
    \/ \E rev \in db_revisions : rev.serial = serial
    \/ \E n \in ObjectNames : db_objects[n] # NoneRef /\ db_objects[n].serial = serial
\* the actor a revision of this user carries
Actor(user) == IF user = "anonymous" THEN NoUser ELSE user
RevisionOf(q) == [serial |-> q.serial, name |-> q.name, user |-> Actor(q.user)]

\* C12: a create or update that raised, or has not yet committed, shows
\* neither its row nor a revision; a committed one shows its revision, tagged
\* with the acting user, together with the row; the tag is set after the write
\* and before the commit
C12_AtomicWriteAndRevision ==
    /\ \A r \in ApiRequests :
          LET q == requests[r]
          IN /\ q.pc \in {"atomic", "written", "tagged", "revised", "failed"} =>
                    ~Observable(q.serial)
             /\ q.pc \in {"atomic", "written"} => q.tag = NoUser
             /\ q.pc \in {"tagged", "revised", "committed"} => q.tag = Actor(q.user)
             /\ q.pc = "committed" =>
                    /\ RevisionOf(q) \in db_revisions
                    /\ db_objects[q.name] # NoneRef
    /\ \A n \in ObjectNames :
          db_objects[n] # NoneRef =>
              \E rev \in db_revisions : rev.serial = db_objects[n].serial /\ rev.name = n
    /\ \A rev \in db_revisions : db_objects[rev.name] # NoneRef

\* one request failed after its write while saving the revision, another
\* one by alice is committed with its row and revision
C12_Witness ==
    \E r, t \in ApiRequests :
        /\ requests[r].pc = "failed"
        /\ requests[r].failed_at = "revision"
        /\ requests[t].pc = "committed"
        /\ requests[t].user = "alice"
        /\ db_objects[requests[t].name] =
               [order |-> requests[t].order, serial |-> requests[t].serial]
        /\ RevisionOf(requests[t]) \in db_revisions

\* a commit that failed on a unique name taken meanwhile left nothing behind
C12_Witness_CommitRaised ==
    \E r \in ApiRequests :
        /\ requests[r].pc = "failed"
        /\ requests[r].failed_at = "commit"
        /\ db_objects[requests[r].name] # NoneRef

----------------------------------------------------------------------------
(* The admin forms of CrudView *)

\* the request has been given its read-only fields
HasFields(q) == q.pc \in {"fields", "foreignkey", "manytomany", "done"}
\* the request has been given the choices of feature_title_property
HasTitleChoices(q) == q.pc \in {"foreignkey", "manytomany", "done"}
\* the request has been given the choices of default_list_properties
HasListChoices(q) == q.pc \in {"manytomany", "done"}
\* the choices a request should be offered
OwnProperties(q) == IF q.add THEN NoProperties ELSE SchemaPropertiesOf(q.obj.layer)

\* C13: in every step of the admin, a request editing a saved view is given
\* 'layer' among its read-only fields, and the layer of a saved view does not
\* change
C13_LayerImmutableInAdmin ==
    [][/\ \A r \in AdminRequests :
             (HasFields(admin_requests'[r]) /\ ~admin_requests'[r].add) =>
                 "layer" \in Range(admin_requests'[r].ro)
       /\ \A v \in Views :
             view_layer[v] # NoLayer => view_layer'[v] = view_layer[v]]_vars

\* a change form that posted another, free layer was saved and the view has
\* the layer it had
C13_Witness ==
    \E r \in AdminRequests :
        LET q == admin_requests[r]
        IN /\ q.pc = "done"
           /\ ~q.add
           /\ q.saved
           /\ q.submitted # q.obj.layer
           /\ \A v \in Views : view_layer[v] # q.submitted
           /\ view_layer[q.view] = q.obj.layer

\* C17: whatever calls came before, get_readonly_fields gives a creation
\* request the configured fields without 'layer' and a request for a saved
\* view the configured fields plus 'layer' once, and the class-level list is
\* never modified
C17_ReadonlyFieldsUnmodified ==
    /\ readonly_fields = ConfiguredReadonlyFields
    /\ \A r \in AdminRequests :
          HasFields(admin_requests[r]) =>
              admin_requests[r].ro =
                  IF admin_requests[r].add THEN ConfiguredReadonlyFields
                  ELSE ConfiguredReadonlyFields \o <<"layer">>

\* C18: in any interleaving, the choices a request is offered for
\* feature_title_property and default_list_properties are the schema
\* properties of the layer of the view it edits, and none when it creates
C18_ChoicesOfOwnView ==
    \A r \in AdminRequests :
        /\ HasTitleChoices(admin_requests[r]) =>
               admin_requests[r].title = OwnProperties(admin_requests[r])
        /\ HasListChoices(admin_requests[r]) =>
               admin_requests[r].list = OwnProperties(admin_requests[r])

----------------------------------------------------------------------------
(* The menu of the settings endpoint, and the integrity of the rows *)

Menu == last.menu
GroupCount == Cardinality(GroupsIn(crud_groups))
Unclassified(views) ==
    [id |-> NoGroup, name |-> "Unclassified", order |-> NoneRef, pictogram |-> NoGroup,
     crud_views |-> views]
UngroupedVisible == {v \in ViewsIn(crud_views) : crud_views[v].group = NoGroup
                                                 /\ crud_views[v].visible}

\* C14: the menu has one section per group, in group order, then one
\* Unclassified section with null id, order and pictogram that lists exactly
\* the visible views without group; its length is the number of groups plus one
C14_MenuSections ==
    last.op = "settings" =>
        /\ Len(Menu) = GroupCount + 1
        /\ \A i \in 1 .. GroupCount :
              /\ Menu[i].id \in GroupsIn(crud_groups)
              /\ Menu[i].order = IntValue(crud_groups[Menu[i].id].order)
              /\ Menu[i].crud_views = ViewsOfGroup(crud_views, Menu[i].id)
        /\ \A i, j \in 1 .. GroupCount : i # j => Menu[i].id # Menu[j].id
        /\ \A i \in 1 .. GroupCount - 1 : Menu[i].order.v <= Menu[i + 1].order.v
        /\ Menu[GroupCount + 1] = Unclassified(UngroupedVisible)

\* two groups, every view in a group: the Unclassified section is there, empty
C14_Witness ==
    /\ last.op = "settings"
    /\ GroupCount = 2
    /\ ViewsIn(crud_views) # {}
    /\ \A v \in ViewsIn(crud_views) : crud_views[v].group # NoGroup
    /\ Len(Menu) = 3
    /\ Menu[3].crud_views = {}
    /\ Menu[1].order.v < Menu[2].order.v

\* a visible and a hidden view without group: only the visible one is listed
C14_Witness_Hidden ==
    /\ last.op = "settings"
    /\ \E v, w \in ViewsIn(crud_views) :
          /\ crud_views[v].group = NoGroup /\ crud_views[v].visible
          /\ crud_views[w].group = NoGroup /\ ~crud_views[w].visible
          /\ Menu[Len(Menu)].crud_views = {v}

\* C15: in every step, a group referenced by a view stays and an attempt to
\* delete it raises and changes no row; afterwards no view references a
\* missing group, no layer has two views, and the step that deletes a view
\* deletes no layer
C15_ProtectedGroupsAndOneToOne ==
    [][/\ \A g \in GroupIds :
             (crud_groups[g] # NoneRef /\ ViewsOfGroup(crud_views, g) # {}) =>
                 /\ crud_groups'[g] = crud_groups[g]
                 /\ (last'.op = "delete-group" /\ last'.id = g) =>
                        /\ last'.outcome = "ProtectedError"
                        /\ dbVars' = dbVars
       /\ \A v \in ViewsIn(crud_views') :
             IF crud_views'[v].group = NoGroup THEN TRUE
             ELSE crud_groups'[crud_views'[v].group] # NoneRef
       /\ \A l \in AdminLayers : Cardinality(ViewOfLayer(crud_views', l)) <= 1
       /\ last'.op = "delete-view" =>
             /\ crud_layers' = crud_layers
             /\ crud_views[last'.id].layer \in crud_layers']_vars

\* the delete of a referenced group was refused
C15_Witness ==
    /\ last.op = "delete-group"
    /\ last.outcome = "ProtectedError"
    /\ crud_groups[last.id] # NoneRef
    /\ ViewsOfGroup(crud_views, last.id) # {}

\* a view was deleted and its layer is left without view; a second view of
\* a layer was refused
C15_Witness_ViewDeleted ==
    /\ last.op = "delete-view"
    /\ \E l \in crud_layers : ViewOfLayer(crud_views, l) = {}

----------------------------------------------------------------------------
(* Documents rendered from the templates of a view *)

RenderedDocument == last.op = "render-template"
\* the template named by the request is attached to the view of the feature
TemplateAttached == last.template_pk \in view_templates[crud_view(last.feature.layer)]

\* C16: a template identifier that is not among the templates of the
\* feature's own view gives a not-found failure and no document, also when the
\* template is attached to the other view; an attached one gives an attachment
\* named after the template file
C16_UnattachedTemplateNotFound ==
    RenderedDocument =>
        IF TemplateAttached
        THEN /\ last.exc = ""
             /\ last.response.content_disposition =
                    [type |-> "attachment",
                     filename |-> PathName(template_file(last.template_pk))]
        ELSE /\ last.exc = "Http404"
             /\ last.response = NoneRef

=============================================================================
